---- MODULE Spec2Model ----
(***************************************************************************)
(* Model of terrapane/bitutil: the constexpr bit primitives RotateLeft,    *)
(* RotateRight (bit_rotation.h), ShiftLeft and ShiftRight (bit_shift.h).   *)
(*                                                                         *)
(* A machine integer is represented by its bit pattern: the set of the bit *)
(* positions that hold a 1 (position 0 is the least significant bit).  The *)
(* C++ operators are defined on that representation with the semantics of  *)
(* C++20: operands narrower than int are promoted to int before << >> & |, *)
(* E1 << E2 is E1 * 2^E2 modulo 2^N, E1 >> E2 is an arithmetic shift for a *)
(* signed E1, and a shift whose count is not in 0..N-1 is undefined.  An   *)
(* undefined shift is modelled by the set of the results real builds give. *)
(* A std::size_t v >= 2^63 is represented by the negative number v - 2^64. *)
(***************************************************************************)
EXTENDS Integers, Sequences, FiniteSets

\* ------------------------------------------------------------------ bounds
\* The longest chain of calls a caller composes on one operand.
MaxCalls == 2

\* How far past the operand's width the sampled bit counts go.
MaxOver == 1

\* FindMSb is run on every bit pattern of the types up to this width.
MaxExhaustive == 16

\* The most threads that call the endianness functions at a time.
MaxThreads == 2

\* ------------------------------------------------------------ integer types
\* The fixed-width types the functions are instantiated with (is_integral<T>).
IntegerTypes ==
    { [name |-> "std::uint8_t",  bits |-> 8,  signed |-> FALSE],
      [name |-> "std::int8_t",   bits |-> 8,  signed |-> TRUE],
      [name |-> "std::uint16_t", bits |-> 16, signed |-> FALSE],
      [name |-> "std::int16_t",  bits |-> 16, signed |-> TRUE],
      [name |-> "std::uint32_t", bits |-> 32, signed |-> FALSE],
      [name |-> "std::int32_t",  bits |-> 32, signed |-> TRUE],
      [name |-> "std::uint64_t", bits |-> 64, signed |-> FALSE],
      [name |-> "std::int64_t",  bits |-> 64, signed |-> TRUE] }

\* The type int, to which narrower operands are promoted.
IntType == [name |-> "int", bits |-> 32, signed |-> TRUE]

\* All bit positions of a W-bit pattern.
AllOnes(W) == 0..(W - 1)

\* std::numeric_limits<T>::max(): all ones for an unsigned T, all ones but
\* the sign bit for a signed T.
NumericLimitsMax(T) == IF T.signed THEN AllOnes(T.bits - 1) ELSE AllOnes(T.bits)

\* sizeof(T) * CHAR_BIT
SizeofBits(T) == T.bits

\* The type the built-in operators compute in: int for a T narrower than int.
PromotedType(T) == IF T.bits < IntType.bits THEN IntType ELSE T

\* Integral promotion of a value of type T: zero extension for an unsigned T,
\* sign extension for a signed T.
Promote(T, v) ==
    IF T.signed /\ (T.bits - 1) \in v
    THEN v \cup (T.bits..(PromotedType(T).bits - 1))
    ELSE v

\* Conversion of the promoted result to the return type T (modulo 2^bits).
ConvertTo(T, v) == v \cap AllOnes(T.bits)

\* a & b and a | b
BitAnd(a, b) == a \cap b
BitOr(a, b) == a \cup b

\* width - bits with the operands taken in the other order.
SizeSubReversed(a, b) == b - a

\* bits subtracted from width in std::size_t arithmetic; a wrapped result
\* (width < bits) is represented by the negative number width - bits.
SizeSub(a, b) == a - b

\* v << c for a count in range: v * 2^c modulo 2^N.
Shl(P, v, c) == { i + c : i \in v } \cap AllOnes(P.bits)

\* v >> c for a count in range: the quotient v / 2^c, sign-filled when the
\* operand is signed and negative.
Shr(P, v, c) ==
    ({ i - c : i \in v } \cap AllOnes(P.bits))
    \cup (IF P.signed /\ (P.bits - 1) \in v THEN (P.bits - c)..(P.bits - 1) ELSE {})

\* TRUE iff a shift by c is defined for operands of type P.
ShiftDefined(P, c) == c >= 0 /\ c < P.bits

\* The results of v << c.  An undefined shift gives what the target's shift
\* instruction gives: the count taken modulo the operand width, or every
\* bit shifted out.
ShlOutcomes(P, v, c) ==
    IF ShiftDefined(P, c)
    THEN { Shl(P, v, c) }
    ELSE { Shl(P, v, c % P.bits), {} }

\* The results of v >> c, likewise.
ShrOutcomes(P, v, c) ==
    IF ShiftDefined(P, c)
    THEN { Shr(P, v, c) }
    ELSE { Shr(P, v, c % P.bits),
           IF P.signed /\ (P.bits - 1) \in v THEN AllOnes(P.bits) ELSE {} }

\* ------------------------------------------------------------- bit_rotation.h
\* RotateLeft without the bits that re-enter at the low end.
RotateLeftNoWrap(T, value, bits, width, mask) ==
    LET P == PromotedType(T)
        v == Promote(T, value)
        m == Promote(T, mask)
    IN  { ConvertTo(T, BitAnd(a, m)) : a \in ShlOutcomes(P, v, bits) }

\* RotateLeft taking the window to be the whole type, whatever width says.
RotateLeftIgnoresWidth(T, value, bits, width, mask) ==
    LET P == PromotedType(T)
        v == Promote(T, value)
        m == Promote(T, mask)
    IN  { ConvertTo(T, BitAnd(BitOr(a, b), m)) :
            a \in ShlOutcomes(P, v, bits),
            b \in ShrOutcomes(P, BitAnd(v, m), SizeSub(SizeofBits(T), bits)) }

\* ((value << bits) | ((value & mask) >> (width - bits))) & mask
RotateLeft(T, value, bits, width, mask) ==
    LET P == PromotedType(T)
        v == Promote(T, value)
        m == Promote(T, mask)
    IN  { ConvertTo(T, BitAnd(BitOr(a, b), m)) :
            a \in ShlOutcomes(P, v, bits),
            b \in ShrOutcomes(P, BitAnd(v, m), SizeSub(width, bits)) }

\* RotateRight without the bits that re-enter at the high end.
RotateRightNoWrap(T, value, bits, width, mask) ==
    LET P == PromotedType(T)
        v == Promote(T, value)
        m == Promote(T, mask)
    IN  { ConvertTo(T, BitAnd(a, m)) : a \in ShrOutcomes(P, BitAnd(v, m), bits) }

\* RotateRight that shifts the operand right before masking it.
RotateRightUnmasked(T, value, bits, width, mask) ==
    LET P == PromotedType(T)
        v == Promote(T, value)
        m == Promote(T, mask)
    IN  { ConvertTo(T, BitAnd(BitOr(a, b), m)) :
            a \in ShrOutcomes(P, v, bits),
            b \in ShlOutcomes(P, v, SizeSub(width, bits)) }

\* (((value & mask) >> bits) | (value << (width - bits))) & mask
RotateRight(T, value, bits, width, mask) ==
    LET P == PromotedType(T)
        v == Promote(T, value)
        m == Promote(T, mask)
    IN  { ConvertTo(T, BitAnd(BitOr(a, b), m)) :
            a \in ShrOutcomes(P, BitAnd(v, m), bits),
            b \in ShlOutcomes(P, v, SizeSub(width, bits)) }

\* ---------------------------------------------------------------- bit_shift.h
\* ShiftLeft that masks the operand instead of the result.
ShiftLeftMaskFirst(T, value, bits, mask) ==
    LET P == PromotedType(T)
        v == Promote(T, value)
        m == Promote(T, mask)
    IN  { ConvertTo(T, a) : a \in ShlOutcomes(P, BitAnd(v, m), bits) }

\* (value << bits) & mask
ShiftLeft(T, value, bits, mask) ==
    LET P == PromotedType(T)
        v == Promote(T, value)
        m == Promote(T, mask)
    IN  { ConvertTo(T, BitAnd(a, m)) : a \in ShlOutcomes(P, v, bits) }

\* ShiftRight that masks the result instead of the operand.
ShiftRightMaskLast(T, value, bits, mask) ==
    LET P == PromotedType(T)
        v == Promote(T, value)
        m == Promote(T, mask)
    IN  { ConvertTo(T, BitAnd(a, m)) : a \in ShrOutcomes(P, v, bits) }

\* ShiftRight that shifts the masked operand as a signed value of the same
\* width, filling with its top bit.
ShiftRightArithmetic(T, value, bits, mask) ==
    LET S == [name |-> T.name, bits |-> T.bits, signed |-> TRUE]
        P == PromotedType(S)
    IN  { ConvertTo(T, a) :
            a \in ShrOutcomes(P, Promote(S, BitAnd(value, mask)), bits) }

\* ((value & mask) >> bits)
ShiftRight(T, value, bits, mask) ==
    LET P == PromotedType(T)
        v == Promote(T, value)
        m == Promote(T, mask)
    IN  { ConvertTo(T, a) : a \in ShrOutcomes(P, BitAnd(v, m), bits) }

\* ------------------------------------------------- arithmetic on bit patterns
\* The natural number a bit pattern below 2^31 stands for.
RECURSIVE ToNat(_)
ToNat(v) ==
    IF v = {} THEN 0
    ELSE LET i == CHOOSE j \in v : TRUE IN (2 ^ i) + ToNat(v \ {i})

\* a + b on bit patterns of any length, by carry propagation.
RECURSIVE Add(_, _)
Add(a, b) ==
    IF b = {} THEN a
    ELSE Add((a \cup b) \ (a \cap b), { i + 1 : i \in a \cap b })

\* v * 2^k, by doubling k times.
RECURSIVE TimesPow2(_, _)
TimesPow2(v, k) == IF k = 0 THEN v ELSE TimesPow2(Add(v, v), k - 1)

\* v mod 2^W: the W low binary digits.
ModPow2(v, W) == v \cap AllOnes(W)

\* a < b as numbers: the highest bit in which they differ is a bit of b.
Less(a, b) ==
    LET d == (a \cup b) \ (a \cap b)
    IN  d # {} /\ (CHOOSE i \in d : \A j \in d : j <= i) \in b

\* The unsigned type of the same width as S.
UnsignedOf(S) == CHOOSE U \in IntegerTypes : U.bits = S.bits /\ ~U.signed

\* ----------------------------------------------------------------- find_msb.h
\* TRUE iff a, a value of type P, is negative.
Negative(P, a) == P.signed /\ (P.bits - 1) \in a

\* a >= b for two values of type P.
GreaterEq(P, a, b) ==
    IF Negative(P, a) # Negative(P, b) THEN Negative(P, b)
    ELSE LET d == (a \cup b) \ (a \cap b)
         IN  d = {} \/ (CHOOSE i \in d : \A j \in d : j <= i) \in a

\* ~a for a value of type P.
BitNot(P, a) == AllOnes(P.bits) \ a

\* One step that tests with > where the code tests with >=.
MSbStepStrict(U, p, v, h) ==
    LET P == PromotedType(U)
        one == Shl(P, Promote(U, {0}), h)
    IN  IF GreaterEq(P, Promote(U, v), one) /\ Promote(U, v) # one
        THEN [p |-> p + h, v |-> ConvertTo(U, Shr(P, Promote(U, v), h))]
        ELSE [p |-> p, v |-> v]

\* One step that adds h to p whatever the comparison says.
MSbStepAlwaysAdds(U, p, v, h) ==
    LET P == PromotedType(U)
    IN  [p |-> p + h, v |-> ConvertTo(U, Shr(P, Promote(U, v), h))]

\* One step that adds h to p but leaves v as it is.
MSbStepKeepsV(U, p, v, h) ==
    LET P == PromotedType(U)
        one == Shl(P, Promote(U, {0}), h)
    IN  IF GreaterEq(P, Promote(U, v), one)
        THEN [p |-> p + h, v |-> v]
        ELSE [p |-> p, v |-> v]

\* if (v >= U(1) << h) p += h, v >>= h;
MSbStep(U, p, v, h) ==
    LET P == PromotedType(U)
        one == Shl(P, Promote(U, {0}), h)
    IN  IF GreaterEq(P, Promote(U, v), one)
        THEN [p |-> p + h, v |-> ConvertTo(U, Shr(P, Promote(U, v), h))]
        ELSE [p |-> p, v |-> v]

\* The width of the first test of the unsigned overload for U: half of U.
FirstStep(U) == U.bits \div 2

\* The following test one bit narrower instead of half as wide.
NextStepLinear(h) == h - 1

\* The width of the test that follows the test of width h (0: none).
NextStep(h) == h \div 2

\* The signed overload passing v on as it is, negative or not.
SignedArgumentNoComplement(S, v) == ConvertTo(UnsignedOf(S), Promote(S, v))

\* The argument the signed overload passes to the unsigned one:
\* (v >= 0) ? static_cast<U>(v) : static_cast<U>(~v)
SignedArgument(S, v) ==
    LET P == PromotedType(S)
        U == UnsignedOf(S)
    IN  IF GreaterEq(P, Promote(S, v), {})
        THEN ConvertTo(U, Promote(S, v))
        ELSE ConvertTo(U, BitNot(P, Promote(S, v)))

\* The unsigned overload from the test of width h on: the remaining tests,
\* then return p.
RECURSIVE Search(_, _, _, _)
Search(U, p, v, h) ==
    IF h = 0 THEN p
    ELSE LET s == MSbStep(U, p, v, h) IN Search(U, s.p, s.v, NextStep(h))

\* FindMSb(v) for the overload of type S.
FindMSb(S, v) ==
    IF S.signed
    THEN Search(UnsignedOf(S), 0, SignedArgument(S, v), FirstStep(UnsignedOf(S)))
    ELSE Search(S, 0, v, FirstStep(S))

\* The bit pattern of a natural number below 2^31.
FromNat(n) == { i \in 0..30 : (n \div (2 ^ i)) % 2 = 1 }

\* ----------------------------------------------- byte_order.h, byte_order.cpp
\* A host's byte order for a std::uint32_t: order[a] is the significance
\* (0: least significant octet) of the octet at address offset a.
ByteOrders == { f \in [0..3 -> 0..3] : \A a, b \in 0..3 : a # b => f[a] # f[b] }

\* The most significant octet at the lowest address.
BigOrder == [a \in 0..3 |-> 3 - a]

\* The least significant octet at the lowest address.
LittleOrder == [a \in 0..3 |-> a]

\* enum class EndianClassification : std::uint32_t
Big_Endian == FromNat(66051)
PDP_Endian == FromNat(16777986)
Honeywell_Endian == FromNat(33751041)
Little_Endian == FromNat(50462976)

\* Observed_Endianness = {{0, 1, 2, 3}}: octets[a], a = 0..3.
Observed_Endianness == [a \in 0..3 |-> a]

\* The member endian of the union read where octets were written: the
\* std::uint32_t whose octet of significance order[a] is octets[a].
ReadEndian(order, octets) ==
    UNION { { 8 * order[a] + i : i \in FromNat(octets[a]) } : a \in 0..3 }

\* A classification that folds every order it does not know into Little.
DetermineMachineEndianFolds(order) ==
    IF ReadEndian(order, Observed_Endianness) \in
           { Big_Endian, PDP_Endian, Honeywell_Endian }
    THEN ReadEndian(order, Observed_Endianness)
    ELSE Little_Endian

\* return static_cast<EndianClassification>(Observed_Endianness.endian);
DetermineMachineEndian(order) == ReadEndian(order, Observed_Endianness)

\* std::endian::native as the implementation defines it for the host.
StdEndianNative(order) ==
    IF order = LittleOrder THEN "little"
    ELSE IF order = BigOrder THEN "big"
    ELSE "other"

\* The literal 0xff shifted to octet k of a value (0x00ff, 0xff00, ...).
OctetMask(k) == (8 * k)..(8 * k + 7)

\* The 32-bit reversal shifting the top octet down by 16 instead of 24.
ReverseOctetsShortShift(U, x) ==
    LET P == PromotedType(U)
        a == Promote(U, x)
    IN  IF U.bits = 16
        THEN ConvertTo(U, BitOr(BitAnd(Shr(P, a, 8), OctetMask(0)),
                                BitAnd(Shl(P, a, 8), OctetMask(1))))
        ELSE IF U.bits = 32
        THEN ConvertTo(U,
               BitOr(BitOr(BitAnd(Shr(P, a, 16), OctetMask(0)),
                           BitAnd(Shr(P, a, 8), OctetMask(1))),
                     BitOr(BitAnd(Shl(P, a, 8), OctetMask(2)),
                           BitAnd(Shl(P, a, 24), OctetMask(3)))))
        ELSE ConvertTo(U,
               BitOr(BitOr(BitOr(BitAnd(Shr(P, a, 56), OctetMask(0)),
                                 BitAnd(Shr(P, a, 40), OctetMask(1))),
                           BitOr(BitAnd(Shr(P, a, 24), OctetMask(2)),
                                 BitAnd(Shr(P, a, 8), OctetMask(3)))),
                     BitOr(BitOr(BitAnd(Shl(P, a, 8), OctetMask(4)),
                                 BitAnd(Shl(P, a, 24), OctetMask(5))),
                           BitOr(BitAnd(Shl(P, a, 40), OctetMask(6)),
                                 BitAnd(Shl(P, a, 40), OctetMask(7))))))

\* The return expression of NetworkByteOrder past the big-endian test, for
\* the overload of type U:
\*   16: ((value >> 8) & 0x00ff) | ((value << 8) & 0xff00)
\*   32: ((value >> 24) & 0x000000ff) | ((value >>  8) & 0x0000ff00) |
\*       ((value <<  8) & 0x00ff0000) | ((value << 24) & 0xff000000)
\*   64: the same with the shifts 56, 40, 24, 8 each way.
ReverseOctets(U, x) ==
    LET P == PromotedType(U)
        a == Promote(U, x)
    IN  IF U.bits = 16
        THEN ConvertTo(U, BitOr(BitAnd(Shr(P, a, 8), OctetMask(0)),
                                BitAnd(Shl(P, a, 8), OctetMask(1))))
        ELSE IF U.bits = 32
        THEN ConvertTo(U,
               BitOr(BitOr(BitAnd(Shr(P, a, 24), OctetMask(0)),
                           BitAnd(Shr(P, a, 8), OctetMask(1))),
                     BitOr(BitAnd(Shl(P, a, 8), OctetMask(2)),
                           BitAnd(Shl(P, a, 24), OctetMask(3)))))
        ELSE ConvertTo(U,
               BitOr(BitOr(BitOr(BitAnd(Shr(P, a, 56), OctetMask(0)),
                                 BitAnd(Shr(P, a, 40), OctetMask(1))),
                           BitOr(BitAnd(Shr(P, a, 24), OctetMask(2)),
                                 BitAnd(Shr(P, a, 8), OctetMask(3)))),
                     BitOr(BitOr(BitAnd(Shl(P, a, 8), OctetMask(4)),
                                 BitAnd(Shl(P, a, 24), OctetMask(5))),
                           BitOr(BitAnd(Shl(P, a, 40), OctetMask(6)),
                                 BitAnd(Shl(P, a, 56), OctetMask(7))))))

\* ------------------------------------------------------------------- inputs
\* Bit positions the sampled operands are built around.
Positions(W) == { 0, 1, W \div 2 - 1, W \div 2, W - 2, W - 1 }

\* Operands: zero, all ones, single bits, single holes, low and high runs,
\* and the operands of the unit tests (0x0c0d0e0f, 0x0000FFFF, 0b10000011).
Operands(T) ==
    LET W == T.bits
    IN  { {}, AllOnes(W) }
        \cup { {i} : i \in Positions(W) }
        \cup { AllOnes(W) \ {i} : i \in Positions(W) }
        \cup { 0..i : i \in Positions(W) }
        \cup { i..(W - 1) : i \in Positions(W) }
        \cup { ConvertTo(T, FromNat(202182159)),
               ConvertTo(T, FromNat(65535)),
               ConvertTo(T, FromNat(131)) }

\* Bit counts: every count from 0 to past the operand's width, and the
\* counts at and past the width of int.
BitCounts(T) ==
    (0..(T.bits + MaxOver)) \cup (IntType.bits..(IntType.bits + MaxOver))

\* The (width, mask) pairs of a call: the defaults, a logical width below
\* the storage width with its mask, and masks of other shapes.
WidthsAndMasks(T) ==
    LET W == T.bits
    IN  { <<SizeofBits(T), NumericLimitsMax(T)>> }
        \cup { <<w, AllOnes(w)>> : w \in { 2, W \div 2, W - 1, W } }
        \cup { <<w, m>> : w \in { W \div 2, W },
                          m \in { (W \div 2)..(W - 1),
                                  { i \in AllOnes(W) : i % 2 = 0 } } }

\* -------------------------------------------------------------------- state
VARIABLES
    T,          \* the integer type of the operand
    value,      \* the caller's original operand
    bits,       \* the bits argument
    width,      \* the width argument
    mask,       \* the mask argument
    acc,        \* the current value: the operand of the next call
    calls,      \* the functions called so far, in order
    pc,         \* the position of the program
    v,          \* FindMSb: the parameter v of the running overload
    p,          \* FindMSb: the local p
    h,          \* FindMSb: the width of the next test (0: none left)
    steps,      \* FindMSb: the tests made so far
    delegated,  \* FindMSb: the calls a signed overload has passed on
    host,       \* the byte order of the machine
    build,      \* whether the library offers std::endian
    Machine_Endian, \* the constant Machine_Endian of byte_order.cpp
    determined, \* the runs of DetermineMachineEndian so far
    obs,        \* the values each query function has returned so far
    threads     \* each thread's position and the values it read

callVars == <<T, value, bits, width, mask, acc, calls>>

msbVars == <<v, p, h, steps, delegated>>

endianVars == <<host, build, Machine_Endian, determined, obs, threads>>

vars == <<callVars, pc, msbVars, endianVars>>

\* No thread has been started.
NoThreads == [t \in 1..MaxThreads |-> [pc |-> "unstarted", seen |-> {}]]

\* No query function has returned anything.
NoObs ==
    [GetMachineEndian |-> {}, IsLittleEndian |-> {}, IsBigEndian |-> {},
     IsLittleOrBigEndian |-> {}]

Init ==
    /\ T \in IntegerTypes
    /\ value \in Operands(T)
    /\ bits \in BitCounts(T)
    /\ \E wm \in WidthsAndMasks(T) : width = wm[1] /\ mask = wm[2]
    /\ acc = value
    /\ calls = <<>>
    /\ pc = "main"
    /\ v = {} /\ p = 0 /\ h = 0 /\ steps = 0 /\ delegated = 0
    /\ host = LittleOrder /\ build = "std_endian"
    /\ Machine_Endian = DetermineMachineEndian(host)
    /\ determined = 1 /\ obs = NoObs /\ threads = NoThreads

\* acc = RotateLeft(acc, bits, width, mask)
CallRotateLeft ==
    /\ Len(calls) < MaxCalls
    /\ acc' \in RotateLeft(T, acc, bits, width, mask)
    /\ calls' = Append(calls, "RotateLeft")
    /\ UNCHANGED <<T, value, bits, width, mask, pc, msbVars, endianVars>>

\* acc = RotateRight(acc, bits, width, mask)
CallRotateRight ==
    /\ Len(calls) < MaxCalls
    /\ acc' \in RotateRight(T, acc, bits, width, mask)
    /\ calls' = Append(calls, "RotateRight")
    /\ UNCHANGED <<T, value, bits, width, mask, pc, msbVars, endianVars>>

\* acc = ShiftLeft(acc, bits, mask)
CallShiftLeft ==
    /\ Len(calls) < MaxCalls
    /\ acc' \in ShiftLeft(T, acc, bits, mask)
    /\ calls' = Append(calls, "ShiftLeft")
    /\ UNCHANGED <<T, value, bits, width, mask, pc, msbVars, endianVars>>

\* acc = ShiftRight(acc, bits, mask)
CallShiftRight ==
    /\ Len(calls) < MaxCalls
    /\ acc' \in ShiftRight(T, acc, bits, mask)
    /\ calls' = Append(calls, "ShiftRight")
    /\ UNCHANGED <<T, value, bits, width, mask, pc, msbVars, endianVars>>

Next ==
    \/ CallRotateLeft
    \/ CallRotateRight
    \/ CallShiftLeft
    \/ CallShiftRight

Spec == Init /\ [][Next]_vars

TypeOK ==
    /\ T \in IntegerTypes
    /\ acc \subseteq AllOnes(T.bits)
    /\ Len(calls) <= MaxCalls

\* ---------------------------------------------------------- FindMSb, by step
\* Arguments of FindMSb: every pattern of the 8-bit and 16-bit types; of the
\* wider types zero, every single bit, every pair of bits, every low run
\* and every high run, and the complement of each of them.
MSbOperands(S) ==
    LET W == S.bits
        some == { {} }
                \cup { {i, j} : i, j \in AllOnes(W) }
                \cup { 0..i : i \in AllOnes(W) }
                \cup { i..(W - 1) : i \in AllOnes(W) }
    IN  IF W <= MaxExhaustive THEN SUBSET AllOnes(W)
        ELSE some \cup { AllOnes(W) \ a : a \in some }

\* The unsigned overload that does the search for the overload of T.
SearchType == IF T.signed THEN UnsignedOf(T) ELSE T

\* The caller evaluates FindMSb(value) for one overload.
InitMSb ==
    /\ T \in IntegerTypes
    /\ value \in MSbOperands(T)
    /\ bits = 0 /\ width = 0 /\ mask = {} /\ acc = {} /\ calls = <<>>
    /\ pc = "call"
    /\ v = value /\ p = 0 /\ h = 0 /\ steps = 0 /\ delegated = 0
    /\ host = LittleOrder /\ build = "std_endian"
    /\ Machine_Endian = DetermineMachineEndian(host)
    /\ determined = 1 /\ obs = NoObs /\ threads = NoThreads

\* A signed overload: return FindMSb(static_cast<U>(v)) or of ~v.
EnterSigned ==
    /\ pc = "call" /\ T.signed
    /\ v' = SignedArgument(T, v)
    /\ delegated' = delegated + 1
    /\ pc' = "unsigned"
    /\ UNCHANGED <<callVars, p, h, steps, endianVars>>

\* An unsigned overload is entered: std::size_t p = 0;
EnterUnsigned ==
    /\ \/ pc = "call" /\ ~T.signed
       \/ pc = "unsigned"
    /\ p' = 0
    /\ h' = FirstStep(SearchType)
    /\ pc' = "search"
    /\ UNCHANGED <<callVars, v, steps, delegated, endianVars>>

\* The next line of the search: if (v >= U(1) << h) p += h, v >>= h;
Step ==
    /\ pc = "search" /\ h >= 1
    /\ LET s == MSbStep(SearchType, p, v, h)
       IN  p' = s.p /\ v' = s.v
    /\ h' = NextStep(h)
    /\ steps' = steps + 1
    /\ UNCHANGED <<callVars, pc, delegated, endianVars>>

\* return p;
Return ==
    /\ pc = "search" /\ h = 0
    /\ pc' = "done"
    /\ UNCHANGED <<callVars, msbVars, endianVars>>

NextMSb ==
    \/ EnterSigned
    \/ EnterUnsigned
    \/ Step
    \/ Return

SpecMSb == InitMSb /\ [][NextMSb]_vars

\* ------------------------------------------------------ byte order, by call
\* The value with the octets of b, most significant first.
FromOctets(b) ==
    UNION { { 8 * (Len(b) - k) + i : i \in FromNat(b[k]) } : k \in 1..Len(b) }

\* The overloads of NetworkByteOrder.
NetworkTypes == { U \in IntegerTypes : ~U.signed /\ U.bits >= 16 }

\* Arguments of NetworkByteOrder: zero, all ones, single bits, one octet
\* set, the two end octets set, octets all equal, values that read the same
\* from either end, and the values of the unit tests (0x1234, 0x12345678,
\* 0x123456789abcdef0, 0x01020304).
NetworkOperands(U) ==
    LET W == U.bits
        n == W \div 8
    IN  { {}, AllOnes(W) }
        \cup { {i} : i \in Positions(W) }
        \cup { OctetMask(k) : k \in 0..(n - 1) }
        \cup { OctetMask(0) \cup OctetMask(n - 1) }
        \cup { FromOctets([k \in 1..n |-> 85]) }
        \cup { FromOctets([k \in 1..n |-> IF k \in {1, n} THEN 18 ELSE 52]) }
        \cup { FromOctets([k \in 1..n |-> IF k = 1 THEN 18 ELSE 52]) }
        \cup { ConvertTo(U, FromOctets(<<18, 52, 86, 120, 154, 188, 222, 240>>)),
               FromOctets(SubSeq(<<18, 52, 86, 120, 154, 188, 222, 240>>, 1, n)),
               ConvertTo(U, FromOctets(<<1, 2, 3, 4>>)) }

\* Octet k (0: least significant) of the value x.
Octet(x, k) == { i - 8 * k : i \in x \cap OctetMask(k) }

\* What reinterpret_cast<std::uint8_t *>(&x) reads for x of type U, octet
\* by octet in ascending address order, on a host of the given order.
StoredOctets(order, U, x) ==
    LET n == U.bits \div 8
    IN  [a \in 0..(n - 1) |->
            Octet(x, IF order = BigOrder THEN n - 1 - a
                     ELSE IF order = LittleOrder THEN a
                     ELSE order[a])]

\* return Machine_Endian;
GetMachineEndian == Machine_Endian

\* IsLittleEndian()
IsLittleEndian ==
    IF build = "std_endian"
    THEN StdEndianNative(host) = "little"
    ELSE GetMachineEndian = Little_Endian

\* IsBigEndian() testing for Little_Endian, as IsLittleEndian() does.
IsBigEndianTestsLittle ==
    IF build = "std_endian"
    THEN StdEndianNative(host) = "big"
    ELSE GetMachineEndian = Little_Endian

\* IsBigEndian()
IsBigEndian ==
    IF build = "std_endian"
    THEN StdEndianNative(host) = "big"
    ELSE GetMachineEndian = Big_Endian

\* IsLittleOrBigEndian() without its test for big endian.
IsLittleOrBigEndianOmitsBig ==
    IF build = "std_endian"
    THEN StdEndianNative(host) = "little"
    ELSE GetMachineEndian = Little_Endian

\* IsLittleOrBigEndian()
IsLittleOrBigEndian ==
    IF build = "std_endian"
    THEN IF StdEndianNative(host) = "little" THEN TRUE
         ELSE IF StdEndianNative(host) = "big" THEN TRUE
         ELSE FALSE
    ELSE GetMachineEndian = Little_Endian \/ GetMachineEndian = Big_Endian

\* NetworkByteOrder with the test for big endian inverted.
NetworkByteOrderSwapsOnBig(U, x) ==
    IF ~IsBigEndian THEN x ELSE ReverseOctets(U, x)

\* NetworkByteOrder returning its argument on every host.
NetworkByteOrderNeverSwaps(U, x) == x

\* NetworkByteOrder(value) for the overload of type U:
\* if (IsBigEndian()) return value; then the reversal of the octets.
NetworkByteOrder(U, x) ==
    IF IsBigEndian THEN x ELSE ReverseOctets(U, x)

\* The program starts: Machine_Endian is zero until its initializer runs.
\* With std::endian the header compiles only where static_assert(
\* IsLittleOrBigEndian()) holds, so such a build exists for those hosts only.
InitEndian ==
    /\ T \in NetworkTypes
    /\ value \in NetworkOperands(T)
    /\ bits = 0 /\ width = 0 /\ mask = {}
    /\ acc = value
    /\ calls = <<>>
    /\ pc = "static_init"
    /\ v = {} /\ p = 0 /\ h = 0 /\ steps = 0 /\ delegated = 0
    /\ host \in ByteOrders
    /\ build \in { "std_endian", "fallback" }
    /\ build = "std_endian" => StdEndianNative(host) \in { "little", "big" }
    /\ Machine_Endian = {}
    /\ determined = 0
    /\ obs = NoObs
    /\ threads = NoThreads

\* const EndianClassification Machine_Endian = DetermineMachineEndian();
StaticInit ==
    /\ pc = "static_init"
    /\ Machine_Endian' = DetermineMachineEndian(host)
    /\ determined' = determined + 1
    /\ pc' = "main"
    /\ UNCHANGED <<callVars, msbVars, host, build, obs, threads>>

\* GetMachineEndian() running DetermineMachineEndian() on every call.
CallGetMachineEndianUncached ==
    /\ pc = "main"
    /\ determined' = determined + 1
    /\ obs' = [obs EXCEPT !.GetMachineEndian = @ \cup {DetermineMachineEndian(host)}]
    /\ UNCHANGED <<callVars, pc, msbVars, host, build, Machine_Endian, threads>>

\* endian = GetMachineEndian()
CallGetMachineEndian ==
    /\ pc = "main"
    /\ obs' = [obs EXCEPT !.GetMachineEndian = @ \cup {GetMachineEndian}]
    /\ UNCHANGED <<callVars, pc, msbVars, host, build, Machine_Endian, determined,
                 threads>>

\* IsLittleEndian()
CallIsLittleEndian ==
    /\ pc = "main"
    /\ obs' = [obs EXCEPT !.IsLittleEndian = @ \cup {IsLittleEndian}]
    /\ UNCHANGED <<callVars, pc, msbVars, host, build, Machine_Endian, determined,
                 threads>>

\* IsBigEndian()
CallIsBigEndian ==
    /\ pc = "main"
    /\ obs' = [obs EXCEPT !.IsBigEndian = @ \cup {IsBigEndian}]
    /\ UNCHANGED <<callVars, pc, msbVars, host, build, Machine_Endian, determined,
                 threads>>

\* IsLittleOrBigEndian()
CallIsLittleOrBigEndian ==
    /\ pc = "main"
    /\ obs' = [obs EXCEPT !.IsLittleOrBigEndian = @ \cup {IsLittleOrBigEndian}]
    /\ UNCHANGED <<callVars, pc, msbVars, host, build, Machine_Endian, determined,
                 threads>>

\* result = NetworkByteOrder(result)
CallNetworkByteOrder ==
    /\ pc = "main"
    /\ Len(calls) < MaxCalls
    /\ acc' = NetworkByteOrder(T, acc)
    /\ calls' = Append(calls, "NetworkByteOrder")
    /\ UNCHANGED <<T, value, bits, width, mask, pc, msbVars, endianVars>>

NextEndian ==
    \/ StaticInit
    \/ CallGetMachineEndian
    \/ CallIsLittleEndian
    \/ CallIsBigEndian
    \/ CallIsLittleOrBigEndian
    \/ CallNetworkByteOrder

SpecEndian == InitEndian /\ [][NextEndian]_vars

\* ---------------------------------------------------- byte order, by thread
\* The functions the threads call.
ThreadFunctions ==
    { "GetMachineEndian", "IsLittleEndian", "IsBigEndian", "NetworkByteOrder" }

\* The function f reads Machine_Endian when it runs: GetMachineEndian does,
\* and so does every function that calls it where std::endian is missing.
ReadsMachineEndian(f) == f = "GetMachineEndian" \/ build = "fallback"

\* The program starts with no thread but the main thread; the threads will
\* call the 32-bit NetworkByteOrder on 0x12345678.
InitThreads ==
    /\ T \in { U \in NetworkTypes : U.bits = 32 }
    /\ value = FromOctets(<<18, 52, 86, 120>>)
    /\ bits = 0 /\ width = 0 /\ mask = {}
    /\ acc = value
    /\ calls = <<>>
    /\ pc = "static_init"
    /\ v = {} /\ p = 0 /\ h = 0 /\ steps = 0 /\ delegated = 0
    /\ host \in ByteOrders
    /\ build \in { "std_endian", "fallback" }
    /\ build = "std_endian" => StdEndianNative(host) \in { "little", "big" }
    /\ Machine_Endian = {}
    /\ determined = 0
    /\ obs = NoObs
    /\ threads = NoThreads

\* main, past the static initializers, starts the thread t.
StartThread(t) ==
    /\ pc = "main"
    /\ threads[t].pc = "unstarted"
    /\ threads' = [threads EXCEPT ![t].pc = "idle"]
    /\ UNCHANGED <<callVars, pc, msbVars, host, build, Machine_Endian,
                   determined, obs>>

\* The thread t enters the function f.
ThreadCalls(t, f) ==
    /\ threads[t].pc = "idle"
    /\ threads' = [threads EXCEPT ![t].pc = f]
    /\ UNCHANGED <<callVars, pc, msbVars, host, build, Machine_Endian,
                   determined, obs>>

\* The thread t returns from its function, which also runs
\* DetermineMachineEndian() and stores the value anew.
ThreadReturnsRedetermining(t) ==
    /\ threads[t].pc \in ThreadFunctions
    /\ Machine_Endian' = DetermineMachineEndian(host)
    /\ determined' = determined + 1
    /\ threads' = [threads EXCEPT ![t] =
                       [pc |-> "idle", seen |-> @.seen \cup {Machine_Endian'}]]
    /\ UNCHANGED <<callVars, pc, msbVars, host, build, obs>>

\* The thread t runs the body of its function and returns: the body reads
\* Machine_Endian if the function does, and the caller keeps the result.
ThreadReturns(t) ==
    LET f == threads[t].pc
    IN  /\ f \in ThreadFunctions
        /\ threads' = [threads EXCEPT ![t] =
               [pc |-> "idle",
                seen |-> IF ReadsMachineEndian(f)
                         THEN @.seen \cup {Machine_Endian} ELSE @.seen]]
        /\ obs' = IF f = "GetMachineEndian"
                  THEN [obs EXCEPT !.GetMachineEndian = @ \cup {GetMachineEndian}]
                  ELSE IF f = "IsLittleEndian"
                  THEN [obs EXCEPT !.IsLittleEndian = @ \cup {IsLittleEndian}]
                  ELSE IF f = "IsBigEndian"
                  THEN [obs EXCEPT !.IsBigEndian = @ \cup {IsBigEndian}]
                  ELSE obs
        /\ acc' = IF f = "NetworkByteOrder"
                  THEN NetworkByteOrder(T, value) ELSE acc
        /\ calls' = IF f = "NetworkByteOrder"
                    THEN <<"NetworkByteOrder">> ELSE calls
        /\ UNCHANGED <<T, value, bits, width, mask, pc, msbVars, host, build,
                       Machine_Endian, determined>>

NextThreads ==
    \/ StaticInit
    \/ \E t \in 1..MaxThreads : StartThread(t)
    \/ \E t \in 1..MaxThreads : \E f \in ThreadFunctions : ThreadCalls(t, f)
    \/ \E t \in 1..MaxThreads : ThreadReturns(t)

SpecThreads == InitThreads /\ [][NextThreads]_vars

\* ------------------------------------------------------ vocabulary of claims
\* The call was made with the default width and mask.
DefaultArgs == width = SizeofBits(T) /\ mask = NumericLimitsMax(T)

\* Exactly the one function f has been called, on the original operand.
Called(f) == calls = <<f>>

\* r is the cyclic left rotation of x by k within a w-bit window: bit i of x
\* is bit (i + k) mod w of r, and r has no bit outside the window.
IsCyclicLeft(r, x, k, w) ==
    /\ r \subseteq AllOnes(w)
    /\ \A i \in AllOnes(w) : (((i + k) % w) \in r) <=> (i \in x)

\* r is the cyclic right rotation of x by k within a w-bit window: bit i of r
\* is bit (i + k) mod w of x.
IsCyclicRight(r, x, k, w) ==
    /\ r \subseteq AllOnes(w)
    /\ \A i \in AllOnes(w) : (i \in r) <=> (((i + k) % w) \in x)

\* ---------------------------------------------------------------------- C1
\* C1: for an unsigned type of width W and 0 < bits < W, RotateLeft with the
\* default width and mask returns the cyclic left rotation: bit i of the
\* operand is bit (i + bits) mod W of the result.
C1_RotateLeftIsCyclic ==
    (Called("RotateLeft") /\ ~T.signed /\ DefaultArgs /\ 0 < bits /\ bits < T.bits)
        => IsCyclicLeft(acc, value, bits, T.bits)

\* RotateLeft(std::uint8_t(0b10000011), 2) == 0b00001110 (TestRotateLeft5)
C1_Witness ==
    /\ Called("RotateLeft") /\ ~T.signed /\ DefaultArgs
    /\ T.bits = 8 /\ value = FromNat(131) /\ bits = 2
    /\ acc = FromNat(14)

\* ---------------------------------------------------------------------- C2
\* C2: for an unsigned type of width W and 0 < bits < W, RotateRight with the
\* default width and mask returns the cyclic right rotation: bit i of the
\* result is bit (i + bits) mod W of the operand.
C2_RotateRightIsCyclic ==
    (Called("RotateRight") /\ ~T.signed /\ DefaultArgs /\ 0 < bits /\ bits < T.bits)
        => IsCyclicRight(acc, value, bits, T.bits)

\* RotateRight(std::uint32_t(0x0000FFFF), 4) == 0xF0000FFF (TestRotateRight9)
C2_Witness ==
    /\ Called("RotateRight") /\ ~T.signed /\ DefaultArgs
    /\ T.bits = 32 /\ value = FromNat(65535) /\ bits = 4
    /\ acc = (0..11) \cup (28..31)
\* ---------------------------------------------------------------------- C3
\* C3: RotateLeft and RotateRight are mutual inverses: for every integer
\* type of width W, every operand and 0 < bits < W, with the default width
\* and mask, RotateLeft(RotateRight(x, bits), bits) == x and
\* RotateRight(RotateLeft(x, bits), bits) == x.
C3_RotatesAreInverses ==
    (/\ calls \in { <<"RotateRight", "RotateLeft">>, <<"RotateLeft", "RotateRight">> }
     /\ DefaultArgs /\ 0 < bits /\ bits < T.bits)
        => acc = value

\* The same round trip on the unsigned types only.
UnsignedRotatesAreInverses ==
    (/\ calls \in { <<"RotateRight", "RotateLeft">>, <<"RotateLeft", "RotateRight">> }
     /\ ~T.signed /\ DefaultArgs /\ 0 < bits /\ bits < T.bits)
        => acc = value

\* ---------------------------------------------------------------------- C4
\* C4: for every operand, every width W up to the type's width, every mask
\* and 0 < bits < W, RotateLeft(x, bits, W, mask) is
\* RotateRight(x, W - bits, W, mask), and RotateRight(x, bits, W, mask) is
\* RotateLeft(x, W - bits, W, mask).
C4_RotateLeftIsRotateRightByRest ==
    (0 < bits /\ bits < width) =>
        /\ Called("RotateLeft") =>
              RotateRight(T, value, width - bits, width, mask) = { acc }
        /\ Called("RotateRight") =>
              RotateLeft(T, value, width - bits, width, mask) = { acc }

\* A left rotation by 1 in a 16-bit window of a 32-bit operand with a mask of
\* alternating bits, which changes the operand.
C4_Witness ==
    /\ Called("RotateLeft") /\ T.bits = 32 /\ ~T.signed
    /\ width = 16 /\ bits = 1
    /\ mask = { i \in AllOnes(32) : i % 2 = 0 }
    /\ value = AllOnes(32)
    /\ acc # {} /\ acc # value

\* ---------------------------------------------------------------------- C5
\* C5: on an unsigned type of S bits used with a logical width w < S, a
\* rotation with width = w and mask = 2^w - 1 of a value <= mask by
\* 0 < bits < w is the w-bit cyclic rotation, with no bit at a position
\* >= w; with the default width and mask it is the S-bit rotation.
C5_ExplicitWidthRotatesWindow ==
    /\ (/\ ~T.signed /\ width < T.bits /\ mask = AllOnes(width)
        /\ value \subseteq mask /\ 0 < bits /\ bits < width) =>
            /\ Called("RotateLeft") => IsCyclicLeft(acc, value, bits, width)
            /\ Called("RotateRight") => IsCyclicRight(acc, value, bits, width)
    /\ (/\ ~T.signed /\ DefaultArgs
        /\ \E w \in 1..(T.bits - 1) :
              value \subseteq AllOnes(w) /\ 0 < bits /\ bits < w) =>
            /\ Called("RotateLeft") => IsCyclicLeft(acc, value, bits, T.bits)
            /\ Called("RotateRight") => IsCyclicRight(acc, value, bits, T.bits)

\* The explicit half of C5 on the signed types as well.
ExplicitWidthRotatesWindowAnyType ==
    (/\ width < T.bits /\ mask = AllOnes(width)
     /\ value \subseteq mask /\ 0 < bits /\ bits < width) =>
        /\ Called("RotateLeft") => IsCyclicLeft(acc, value, bits, width)
        /\ Called("RotateRight") => IsCyclicRight(acc, value, bits, width)

\* RotateLeft(uint_fast32_t(0x0c0d0e0f), 8, 32, 0xffffffff) == 0x0d0e0f0c on
\* a 64-bit uint_fast32_t (TestRotateLeft8).
C5_Witness ==
    /\ Called("RotateLeft") /\ T.bits = 64 /\ ~T.signed
    /\ width = 32 /\ mask = AllOnes(32) /\ bits = 8
    /\ value = FromNat(202182159)
    /\ acc = FromNat(219025164)

\* The same call with the default width and mask: the 64-bit rotation
\* 0x0c0d0e0f00, which is not the 32-bit rotation 0x0d0e0f0c.
DefaultWidthDiffers ==
    /\ Called("RotateLeft") /\ T.bits = 64 /\ ~T.signed /\ DefaultArgs
    /\ bits = 8 /\ value = FromNat(202182159)
    /\ acc = { i + 8 : i \in value }
    /\ ~IsCyclicLeft(acc, value, bits, 32)
\* ---------------------------------------------------------------------- C6
\* C6: with the default width and mask, RotateLeft, RotateRight, ShiftLeft
\* and ShiftRight on a signed W-bit operand return the same W-bit pattern as
\* on the unsigned W-bit operand with the same bit pattern (the default mask
\* being all ones over the full width).
C6_SignedIsOpaqueBitPattern ==
    LET U == UnsignedOf(T)
        w == SizeofBits(U)
        m == NumericLimitsMax(U)
    IN  (T.signed /\ DefaultArgs /\ bits < T.bits) =>
            /\ (Called("RotateLeft") /\ 0 < bits) =>
                  acc \in RotateLeft(U, value, bits, w, m)
            /\ (Called("RotateRight") /\ 0 < bits) =>
                  acc \in RotateRight(U, value, bits, w, m)
            /\ Called("ShiftLeft") => acc \in ShiftLeft(U, value, bits, m)
            /\ Called("ShiftRight") => acc \in ShiftRight(U, value, bits, m)

\* ---------------------------------------------------------------------- C7
\* C7: for an unsigned type of width W, 0 <= bits < W and every mask,
\* ShiftLeft(value, bits, mask) is ((value * 2^bits) mod 2^W) AND mask; with
\* the default mask it is the operand's bits moved up by bits positions,
\* those moved past position W-1 discarded.
C7_ShiftLeftIsMultiplication ==
    (Called("ShiftLeft") /\ ~T.signed /\ bits < T.bits) =>
        /\ acc = BitAnd(ModPow2(TimesPow2(value, bits), T.bits), mask)
        /\ T.bits <= 16 =>
              acc = BitAnd(FromNat((ToNat(value) * (2 ^ bits)) % (2 ^ T.bits)), mask)
        /\ mask = NumericLimitsMax(T) =>
              acc = { i + bits : i \in { j \in value : j + bits <= T.bits - 1 } }

\* ShiftLeft(uint_fast32_t(0x0c0d0e0f), 8, 0xffffffff) == 0x0d0e0f00 on a
\* 64-bit uint_fast32_t (TestShiftLeft8): the mask cuts the bits moved past
\* position 31.
C7_Witness ==
    /\ Called("ShiftLeft") /\ T.bits = 64 /\ ~T.signed
    /\ mask = AllOnes(32) /\ bits = 8
    /\ value = FromNat(202182159)
    /\ acc = FromNat(219025152)

C9_ShiftRightMasksResult ==
    (Called("ShiftRight") /\ bits < T.bits) =>
        LET P == PromotedType(T)
        IN  /\ acc = ConvertTo(T, BitAnd(Shr(P, Promote(T, value), bits),
                                         Promote(T, mask)))
            /\ acc \subseteq mask

\* What the code does instead: the mask is applied to the operand before
\* the shift, so bit i of the result is set iff bit i + bits (the sign bit,
\* past the top of a signed type) is set in both value and mask.
ShiftRightMasksOperand ==
    (Called("ShiftRight") /\ bits < T.bits) =>
        LET top == T.bits - 1
            src(i) == IF i + bits <= top THEN i + bits
                      ELSE IF T.signed THEN top ELSE T.bits
        IN  acc = { i \in AllOnes(T.bits) : src(i) \in value /\ src(i) \in mask }

\* --------------------------------------------------------------------- C10
\* C10: a call of ShiftLeft or ShiftRight whose bits argument is greater
\* than the number of bits of the operand's type returns zero.
C10_OverwideShiftIsZero ==
    ((Called("ShiftLeft") \/ Called("ShiftRight")) /\ bits > T.bits)
        => acc = {}

\* --------------------------------------------------------------------- C11
\* C11: an unsigned overload of FindMSb returns, for v >= 1, the position p
\* of the highest set bit, 2^p <= v < 2^(p+1), and returns 0 for v = 0, as
\* it does for v = 1.
C11_UnsignedFindMSbIsHighestSetBit ==
    (pc = "done" /\ ~T.signed) =>
        /\ value # {} => ~Less(value, {p}) /\ Less(value, {p + 1})
        /\ value # {} => p \in value /\ \A i \in value : i <= p
        /\ value \in { {}, {0} } => p = 0

\* FindMSb(std::uint32_t(1) << 31) has returned 31.
C11_Witness ==
    /\ pc = "done" /\ T.name = "std::uint32_t"
    /\ value = {31} /\ p = 31

\* --------------------------------------------------------------------- C12
\* The pattern whose highest set bit a signed overload looks for: x itself
\* when x >= 0, the complement of x when x < 0.
SearchedPattern(S, x) == IF Negative(S, x) THEN BitNot(S, x) ELSE x

\* C12: a signed overload of FindMSb returns the unsigned FindMSb of v for
\* v >= 0 and of ~v for v < 0, which is the position of the highest 0 bit of
\* v (0 for v = -1); FindMSb(x) = FindMSb(~x) for x < 0; -1, 0 and 1 give 0.
C12_SignedFindMSbSearchesComplement ==
    (pc = "done" /\ T.signed) =>
        LET q == SearchedPattern(T, value) IN
        /\ p = FindMSb(UnsignedOf(T), q)
        /\ q # {} => p \in q /\ \A i \in q : i <= p
        /\ q = {} => p = 0
        /\ Negative(T, value) => FindMSb(T, BitNot(T, value)) = p
        /\ value \in { AllOnes(T.bits), {}, {0} } => p = 0

\* FindMSb(std::int8_t(-65)) has returned 6.
C12_Witness ==
    /\ pc = "done" /\ T.name = "std::int8_t"
    /\ value = AllOnes(8) \ {6} /\ delegated = 1 /\ p = 6

\* --------------------------------------------------------------------- C13
\* C13: FindMSb returns a position for every bit pattern of every overload:
\* a call never stops short of its return, and the position returned is at
\* most W-1 for an unsigned and at most W-2 for a signed overload.
C13_FindMSbIsTotalAndInRange ==
    /\ pc # "done" => ENABLED NextMSb
    /\ steps <= T.bits
    /\ pc = "done" =>
        /\ p \in 0..(T.bits - 1)
        /\ T.signed => p <= T.bits - 2

\* FindMSb of the least std::int64_t has returned 62.
C13_Witness ==
    /\ pc = "done" /\ T.name = "std::int64_t"
    /\ value = {63} /\ p = 62

\* --------------------------------------------------------------------- C14
\* The order of a PDP-11: 0x0A0B0C0D is stored as 0B 0A 0D 0C.
PdpOrder == <<2, 3, 0, 1>>

\* The order of a Honeywell 316: 0x0A0B0C0D is stored as 0C 0D 0A 0B.
HoneywellOrder == <<1, 0, 3, 2>>

\* The order o as a byte order of the model (address offsets from 0).
OrderOf(o) == [a \in 0..3 |-> o[a + 1]]

\* The four enumerators of EndianClassification.
Enumerators == { Big_Endian, PDP_Endian, Honeywell_Endian, Little_Endian }

\* C14: GetMachineEndian returns the 32-bit value that the octets 0, 1, 2, 3
\* read as under the host's byte order: 0x00010203 on a big-endian,
\* 0x03020100 on a little-endian, 0x01000302 on a PDP and 0x02030001 on a
\* Honeywell host; the four differ, and under any other order the value
\* returned is none of them.
C14_GetMachineEndianReadsHostOrder ==
    \A e \in obs.GetMachineEndian :
        /\ ToNat(e) = 1 * 256 ^ host[1] + 2 * 256 ^ host[2] + 3 * 256 ^ host[3]
        /\ host = BigOrder => ToNat(e) = 66051 /\ e = Big_Endian
        /\ host = LittleOrder => ToNat(e) = 50462976 /\ e = Little_Endian
        /\ host = OrderOf(PdpOrder) => ToNat(e) = 16777986 /\ e = PDP_Endian
        /\ host = OrderOf(HoneywellOrder) =>
               ToNat(e) = 33751041 /\ e = Honeywell_Endian
        /\ Cardinality(Enumerators) = 4
        /\ host \notin { BigOrder, LittleOrder, OrderOf(PdpOrder),
                         OrderOf(HoneywellOrder) } => e \notin Enumerators

\* GetMachineEndian() has returned PDP_Endian on a PDP host.
C14_Witness ==
    /\ pc = "main" /\ host = OrderOf(PdpOrder)
    /\ obs.GetMachineEndian = {PDP_Endian}

C16_IsLittleAndIsBigTestClassification ==
    /\ pc = "main" =>
        /\ IsLittleEndian <=> GetMachineEndian = Little_Endian
        /\ IsBigEndian <=> GetMachineEndian = Big_Endian
    /\ \A e \in obs.GetMachineEndian :
        /\ \A b \in obs.IsLittleEndian : b <=> e = Little_Endian
        /\ \A b \in obs.IsBigEndian : b <=> e = Big_Endian

\* With std::endian on a little-endian host IsLittleEndian() has returned
\* true, IsBigEndian() false and GetMachineEndian() Little_Endian.
C16_Witness ==
    /\ build = "std_endian" /\ host = LittleOrder
    /\ obs.IsLittleEndian = {TRUE} /\ obs.IsBigEndian = {FALSE}
    /\ obs.GetMachineEndian = {Little_Endian}

\* --------------------------------------------------------------------- C17
\* C17: IsLittleOrBigEndian() is true iff the classification is Little_Endian
\* or Big_Endian; IsLittleEndian() and IsBigEndian() are never both true, and
\* exactly one of them is true when IsLittleOrBigEndian() is.
C17_IsLittleOrBigEndianIsExactlyOne ==
    /\ pc = "main" =>
        /\ IsLittleOrBigEndian <=>
               DetermineMachineEndian(host) \in { Little_Endian, Big_Endian }
        /\ ~(IsLittleEndian /\ IsBigEndian)
        /\ IsLittleOrBigEndian => (IsLittleEndian # IsBigEndian)
    /\ \A c \in obs.IsLittleOrBigEndian :
        /\ c <=> host \in { LittleOrder, BigOrder }
        /\ \A e \in obs.GetMachineEndian :
               c <=> e \in { Little_Endian, Big_Endian }
        /\ \A a \in obs.IsLittleEndian : \A b \in obs.IsBigEndian :
               ~(a /\ b) /\ (c => a # b)

\* On a Honeywell host IsLittleOrBigEndian(), IsLittleEndian() and
\* IsBigEndian() have all returned false.
C17_Witness ==
    /\ host = OrderOf(HoneywellOrder)
    /\ obs.IsLittleOrBigEndian = {FALSE}
    /\ obs.IsLittleEndian = {FALSE} /\ obs.IsBigEndian = {FALSE}

\* --------------------------------------------------------------------- C18
\* The value of type U with the octets of x in the opposite order.
OctetReversal(U, x) ==
    LET n == U.bits \div 8
    IN  UNION { { 8 * (n - 1 - k) + i : i \in Octet(x, k) } : k \in 0..(n - 1) }

\* The host is one NetworkByteOrder is written for: big or little endian.
BigOrLittleHost == host \in { BigOrder, LittleOrder }

\* C18: on the hosts it is written for, NetworkByteOrder(value) is the
\* reversal of the octets of value on a little-endian host and value itself
\* on a big-endian host; so, for a value that differs from its reversal, the
\* result is the reversal iff the host is little endian.
C18_NetworkByteOrderSwapsIffLittle ==
    (Called("NetworkByteOrder") /\ BigOrLittleHost) =>
        /\ host = LittleOrder => acc = OctetReversal(T, value)
        /\ host = BigOrder => acc = value
        /\ value # OctetReversal(T, value) =>
               (acc = OctetReversal(T, value) <=> host = LittleOrder)

\* NetworkByteOrder(std::uint32_t(0x12345678)) has returned 0x78563412 on a
\* little-endian host.
C18_Witness ==
    /\ Called("NetworkByteOrder") /\ host = LittleOrder
    /\ T.name = "std::uint32_t"
    /\ value = FromOctets(<<18, 52, 86, 120>>)
    /\ acc = FromOctets(<<120, 86, 52, 18>>)

\* --------------------------------------------------------------------- C19
\* C19: on a big- or little-endian host the octets of NetworkByteOrder(v),
\* read in ascending address order, are the octets of v from the most to the
\* least significant.
C19_ResultIsStoredMostSignificantFirst ==
    (Called("NetworkByteOrder") /\ BigOrLittleHost) =>
        LET n == T.bits \div 8
        IN  StoredOctets(host, T, acc) =
                [a \in 0..(n - 1) |-> Octet(value, n - 1 - a)]

\* On a little-endian host NetworkByteOrder(0x123456789abcdef0) is stored as
\* 12 34 56 78 9a bc de f0.
C19_Witness ==
    /\ Called("NetworkByteOrder") /\ host = LittleOrder
    /\ T.name = "std::uint64_t"
    /\ StoredOctets(host, T, acc) =
           [a \in 0..7 |->
               FromNat(<<18, 52, 86, 120, 154, 188, 222, 240>>[a + 1])]

\* --------------------------------------------------------------------- C20
\* C20: on a big- or little-endian host NetworkByteOrder is an involution:
\* NetworkByteOrder(NetworkByteOrder(x)) = x.
C20_NetworkByteOrderIsInvolution ==
    (calls = <<"NetworkByteOrder", "NetworkByteOrder">> /\ BigOrLittleHost)
        => acc = value

\* On a little-endian host two calls have returned std::uint16_t(0x1234).
C20_Witness ==
    /\ calls = <<"NetworkByteOrder", "NetworkByteOrder">>
    /\ host = LittleOrder /\ T.name = "std::uint16_t"
    /\ value = FromOctets(<<18, 52>>) /\ acc = value

\* --------------------------------------------------------------------- C21
\* The octets of the value x of type U are not all equal.
OctetsDiffer(U, x) ==
    \E j, k \in 0..(U.bits \div 8 - 1) : Octet(x, j) # Octet(x, k)

\* C21 as stated: on a little-endian host NetworkByteOrder(x) differs from x
\* whenever the octets of x are not all equal; on a big-endian host
\* NetworkByteOrder(x) = x.
C21_DifferingOctetsChangeOnLittle ==
    Called("NetworkByteOrder") =>
        /\ (host = LittleOrder /\ OctetsDiffer(T, value)) => acc # value
        /\ host = BigOrder => acc = value

\* C21 as amended: on a little-endian host NetworkByteOrder(x) differs from x
\* exactly when x is not its own octet reversal (for the 16-bit overload:
\* when its two octets differ); on a big-endian host NetworkByteOrder(x) = x.
C21_NonPalindromesChangeOnLittle ==
    Called("NetworkByteOrder") =>
        /\ host = LittleOrder =>
               (acc # value <=> value # OctetReversal(T, value))
        /\ (host = LittleOrder /\ T.bits = 16) =>
               (acc # value <=> OctetsDiffer(T, value))
        /\ host = BigOrder => acc = value

\* On a little-endian host NetworkByteOrder(std::uint16_t(0x1234)) has
\* returned 0x3412.
C21_Witness ==
    /\ Called("NetworkByteOrder") /\ host = LittleOrder
    /\ T.name = "std::uint16_t"
    /\ value = FromOctets(<<18, 52>>) /\ acc = FromOctets(<<52, 18>>)

\* --------------------------------------------------------------------- C22
\* Some thread has been started.
SomeThread == \E t \in 1..MaxThreads : threads[t].pc # "unstarted"

RotateShiftAmounts(k, w) == <<k, SizeSub(w, k)>>

\* The results of RotateLeft when it shifts by the amounts a.
RotateLeftShiftingBy(a) ==
    LET P == PromotedType(T)
        m == Promote(T, mask)
    IN  { ConvertTo(T, BitAnd(BitOr(x, y), m)) :
            x \in ShlOutcomes(P, Promote(T, value), a[1]),
            y \in ShrOutcomes(P, BitAnd(Promote(T, value), m), a[2]) }

\* The results of RotateRight when it shifts by the amounts a.
RotateRightShiftingBy(a) ==
    LET P == PromotedType(T)
        m == Promote(T, mask)
    IN  { ConvertTo(T, BitAnd(BitOr(x, y), m)) :
            x \in ShrOutcomes(P, BitAnd(Promote(T, value), m), a[1]),
            y \in ShlOutcomes(P, Promote(T, value), a[2]) }

\* C23: RotateLeft and RotateRight shift by bits and by width - bits; both
\* amounts are in 1..width-1 when 0 < bits < width, and one of them is
\* outside 0..width-1 (the full width, or a wrapped difference) iff
\* bits = 0 or bits >= width; bits = 0 shifts by the full width.
C23_RotateShiftAmounts ==
    (Called("RotateLeft") \/ Called("RotateRight")) =>
        LET a == RotateShiftAmounts(bits, width)
            InWindow(x) == x \in 0..(width - 1)
        IN  /\ Called("RotateLeft") => acc \in RotateLeftShiftingBy(a)
            /\ Called("RotateRight") => acc \in RotateRightShiftingBy(a)
            /\ a[1] = bits
            /\ bits <= width => a[2] = width - bits
            /\ bits > width => a[2] < 0
            /\ (0 < bits /\ bits < width) =>
                   a[1] \in 1..(width - 1) /\ a[2] \in 1..(width - 1)
            /\ (~InWindow(a[1]) \/ ~InWindow(a[2])) <=>
                   (bits = 0 \/ bits >= width)
            /\ bits = 0 => a[2] = width

\* RotateLeft of a std::uint32_t by 0 bits, default width: the right shift
\* was by 32.
C23_Witness ==
    /\ Called("RotateLeft") /\ T.name = "std::uint32_t"
    /\ bits = 0 /\ DefaultArgs
    /\ RotateShiftAmounts(bits, width) = <<0, 32>>
    /\ ~ShiftDefined(PromotedType(T), width)

\* --------------------------------------------------------------------- C24
\* The position of the highest set bit of x, 0 when x is zero.
HighestSetBit(x) == IF x = {} THEN 0 ELSE CHOOSE i \in x : \A j \in x : j <= i

\* The argument the unsigned overload was entered with.
SearchInput == IF T.signed THEN SearchedPattern(T, value) ELSE value

\* The width of the test made last (the next is of half that width).
LastStep == IF h = 0 THEN 1 ELSE 2 * h

\* C24: after every step of the unsigned search, of width h, v is below 2^h,
\* p is a multiple of h and p plus the highest set bit of v is the highest
\* set bit of the input; a step adds h to p and shifts v right by h exactly
\* when v >= 2^h, and leaves both unchanged otherwise.
C24_SearchInvariant ==
    /\ []((pc \in { "search", "done" } /\ steps >= 1) =>
            /\ Less(v, {LastStep})
            /\ p % LastStep = 0
            /\ p + HighestSetBit(v) = HighestSetBit(SearchInput))
    /\ [][(pc = "search" /\ steps' = steps + 1) =>
            IF ~Less(v, {h})
            THEN p' = p + h /\ v' = { i - h : i \in { j \in v : j >= h } }
            ELSE p' = p /\ v' = v]_vars

\* FindMSb(std::uint64_t(1) << 63) after the tests of widths 32, 16 and 8:
\* p is 56 and v is 1 << 7.
C24_Witness ==
    /\ pc = "search" /\ T.name = "std::uint64_t" /\ value = {63}
    /\ steps = 3 /\ h = 4 /\ p = 56 /\ v = {7}

\* --------------------------------------------------------------------- C25
\* log2(W) for the widths of the overloads.
Log2Width(W) == CHOOSE n \in 0..6 : 2 ^ n = W

\* The steps a call at this position has yet to take to its return: the
\* tests not yet made and the return, and before them the entry of the
\* unsigned overload and, in a signed overload, the delegation.
StepsToReturn ==
    IF pc = "done" THEN 0
    ELSE IF pc = "search" THEN Log2Width(T.bits) - steps + 1
    ELSE IF pc = "unsigned" THEN Log2Width(T.bits) + 2
    ELSE Log2Width(T.bits) + 2 + (IF T.signed THEN 1 ELSE 0)

\* C25: every call of FindMSb returns, after exactly log2(W) tests (3, 4, 5
\* and 6 for 8, 16, 32 and 64 bits) whatever the argument, and a signed
\* overload passes the call on to the unsigned overload exactly once.
C25_FindMSbTakesLog2Steps ==
    /\ [](/\ pc # "done" => ENABLED NextMSb
          /\ StepsToReturn >= 0
          /\ steps <= Log2Width(T.bits)
          /\ delegated <= 1
          /\ pc = "done" =>
              /\ steps = Log2Width(T.bits)
              /\ <<T.bits, steps>> \in
                     { <<8, 3>>, <<16, 4>>, <<32, 5>>, <<64, 6>> }
              /\ delegated = IF T.signed THEN 1 ELSE 0
          /\ pc \in { "unsigned", "search" } =>
                 delegated = IF T.signed THEN 1 ELSE 0)
    /\ [][StepsToReturn' = StepsToReturn - 1]_vars

\* FindMSb(std::int64_t(-1)) has returned after one delegation and 6 tests.
C25_Witness ==
    /\ pc = "done" /\ T.name = "std::int64_t" /\ value = AllOnes(64)
    /\ steps = 6 /\ delegated = 1

\* --------------------------------------------------------------------- C26
\* Values that agree with the operand on the low width bits and differ from
\* it above them: no, every and each single bit set at or above width.
SameBelowWidth ==
    LET hi == width..(T.bits - 1)
    IN  { (value \cap mask) \cup d : d \in { {}, hi } \cup { {i} : i \in hi } }

Widen(S, U, x) ==
    IF Negative(S, x) THEN x \cup (S.bits..(U.bits - 1)) ELSE x

\* The overloads that can hold every value of the type S.
WiderOverloads(S) ==
    { U \in IntegerTypes : U.signed = S.signed /\ U.bits >= S.bits }

\* C27: the overloads of FindMSb agree: the position returned for a value of
\* a type is the one every wider unsigned overload returns for the same
\* value, and every wider signed overload for the sign-extended value.
C27_OverloadsAgree ==
    pc = "done" =>
        \A U \in WiderOverloads(T) : FindMSb(U, Widen(T, U, value)) = p

\* FindMSb(std::int16_t(-129)) has returned 7, as FindMSb(std::int64_t(-129))
\* does.
C27_Witness ==
    /\ pc = "done" /\ T.name = "std::int16_t"
    /\ value = AllOnes(16) \ {7} /\ p = 7
    /\ \E U \in WiderOverloads(T) :
           U.bits = 64 /\ Widen(T, U, value) = AllOnes(64) \ {7}

\* --------------------------------------------------------------------- C28
\* C28: for an unsigned type of width W, the default mask and 0 <= k < W,
\* ShiftRight(ShiftLeft(x, k), k) is x AND (2^(W-k) - 1) and
\* ShiftLeft(ShiftRight(x, k), k) is x AND NOT (2^k - 1): the round trip
\* loses the k bits shifted out and no others.
C28_ShiftRoundTripLosesShiftedBits ==
    (~T.signed /\ DefaultArgs /\ bits < T.bits) =>
        /\ calls = <<"ShiftLeft", "ShiftRight">> =>
               acc = value \cap AllOnes(T.bits - bits)
        /\ calls = <<"ShiftRight", "ShiftLeft">> =>
               acc = value \ AllOnes(bits)

\* ShiftRight(ShiftLeft(std::uint8_t(0x83), 1), 1) has returned 0x03.
C28_Witness ==
    /\ calls = <<"ShiftLeft", "ShiftRight">> /\ T.name = "std::uint8_t"
    /\ DefaultArgs /\ bits = 1
    /\ value = {0, 1, 7} /\ acc = {0, 1}

====
